---- MODULE Spec2Model ----
(***************************************************************************)
(* The mutex of the CMSIS++ RTOS (os::rtos::mutex) with the scheduler      *)
(* contracts it uses: one mutex, a few threads of fixed base priority, the *)
(* steady clock and its timeout list.  A scheduler critical section is one *)
(* atomic step; code that runs outside every critical section (the         *)
(* priority re-evaluation of timed_lock, the body of the prio_ceiling      *)
(* setter) is split at the points where a preemption changes what it sees. *)
(***************************************************************************)
EXTENDS Integers, Sequences, FiniteSets, TLC

\* ------------------------------------------------------------------ bounds
NumThreads == 3
MaxPrio == 3
MaxCount == 2
MaxDuration == 1
MaxSize == 4

\* ------------------------------------------------------------- constants
\* thread::priority::none
none == 0
\* nullptr as an owner
NoThread == 0

Threads == 1..NumThreads
Prios == 1..MaxPrio

Types == {"normal", "errorcheck", "recursive"}
Protocols == {"none", "inherit", "protect"}

VARIABLES
  \* mutex attributes
  type_, protocol_, robustness_, max_count_, prio_ceiling_,
  \* mutex state
  owner_, count_, owner_prio_, boosted_prio_, consistent_, recoverable_, list_,
  \* threads
  prio, acquired_mutexes_, interrupted_, pc, op, res,
  timeout_timestamp, max_prio, new_ceiling,
  \* clock
  clock_list,
  \* execution context: an interrupt handler runs, the nesting of scheduler
  \* critical sections of each thread (the scheduler is locked while one is
  \* open), of uncritical sections inside them (the scheduler is unlocked
  \* meanwhile), of interrupt critical sections
  in_handler_mode, scs, ucs, ics,
  \* the lifetime of the mutex object: the result of its construction
  constructed,
  \* thread::stack: the static sizes, the value the last setter returned, a
  \* failed assert()
  min_size_bytes_, default_size_bytes_, tmp, assert_failed,
  \* observers: who holds a successful acquisition, what the thread was when
  \* it took the free mutex, a write through a null owner_
  held, entry, nullDeref

mvars == <<type_, protocol_, robustness_, max_count_, prio_ceiling_,
           owner_, count_, owner_prio_, boosted_prio_, consistent_,
           recoverable_, list_>>
tvars == <<prio, acquired_mutexes_, interrupted_, pc, op, res,
           timeout_timestamp, max_prio, new_ceiling>>
cvars == <<clock_list>>
svars == <<min_size_bytes_, default_size_bytes_, tmp, assert_failed>>
xvars == <<in_handler_mode, scs, ucs, ics, constructed, svars>>
gvars == <<held, entry, nullDeref>>
vars == <<mvars, tvars, cvars, xvars, gvars>>

\* ------------------------------------------------------------ list helpers
InList(t) == \E i \in 1..Len(list_) : list_[i] = t

\* variant for sensitivity: the unlink leaves the node where it is
RemoveNothing(s, t) == s

\* _unlink_node: the node of thread t leaves the list, if it is there
Remove(s, t) == SelectSeq(s, LAMBDA x : x # t)

\* waiting_threads_list::link: priority order, ties after the older nodes
LinkPos(s, pr, p) == Cardinality({i \in 1..Len(s) : pr[s[i]] >= p})

Link(s, t, pr) ==
  LET k == LinkPos(s, pr, pr[t])
  IN  SubSeq(s, 1, k) \o <<t>> \o SubSeq(s, k + 1, Len(s))

\* the largest priority of the linked threads, none for an empty list
MaxWaiterPrio(s) ==
  IF Len(s) = 0 THEN none
  ELSE CHOOSE p \in {prio[s[i]] : i \in 1..Len(s)} :
         \A i \in 1..Len(s) : prio[s[i]] <= p

\* ------------------------------------------------------------------ clock
\* Time is kept relative to the present: the steady clock reads 0 and a tick
\* moves every pending timestamp one unit closer; a timestamp that has been
\* reached stays reached.
steady_now == 0

\* ------------------------------------------------------------- scheduling
\* a write through a null owner_ ends the run (the fault handler)
Running == ~nullDeref

\* A thread that is inside a call and not suspended is ready or running.
Ready(u) == pc[u] \notin {"idle", "wait"}

\* A suspended thread is made ready (thread::resume): a thread in its wait
\* goes on after reschedule(); one that is linked and marked suspended but
\* has not reached reschedule() yet will find itself ready there.
MadeReady(l) ==
  IF l = "wait" THEN "woken" ELSE IF l = "linked" THEN "ready" ELSE l

\* thread u keeps the scheduler locked: it is in a scheduler critical section
\* and not in an uncritical section
Locks(u) == scs[u] > 0 /\ ucs[u] = 0

\* scheduler::locked()
Locked == \E u \in Threads : Locks(u)

\* Single processor, preemption by priority: a thread runs only if no ready
\* thread has a higher priority.  Ready threads of equal priority may run in
\* either order (the order of the ready list is not kept here).  No thread
\* runs while an interrupt handler does, and while the scheduler is locked
\* only the thread that locked it.
CanRun(t) ==
  /\ Running
  /\ ~in_handler_mode
  /\ \A u \in Threads \ {t} : ~Locks(u)
  /\ Locks(t) \/ \A u \in Threads \ {t} : Ready(u) => prio[u] <= prio[t]

\* interrupts are enabled: no interrupt critical section is open
Enabled == Running /\ ics = 0

\* ------------------------------------------------------------ entry checks
\* variant for sensitivity: the locked scheduler is not tested
EntryCheckHandlerOnly(o) == IF in_handler_mode THEN "EPERM" ELSE "ok"

\* The os_assert_err() lines at the head of call o (lines 734-735, 853,
\* 929-930, 1085, 1216 and 1224, 1280, 1314): the error returned, ok to go on.
EntryCheck(o) ==
  IF in_handler_mode THEN "EPERM"
  ELSE IF o \in {"lock", "timed_lock", "prio_ceiling"} /\ Locked THEN "EPERM"
  ELSE "ok"

\* Who calls: an interrupt handler at any time, else a running thread that is
\* between calls.
Caller(t) ==
  IF in_handler_mode THEN Running
  ELSE pc[t] = "idle" /\ ~interrupted_[t] /\ CanRun(t)

\* the call returns and nothing but the context is left to change
Refused == UNCHANGED <<mvars, tvars, cvars, gvars>>

\* --------------------------------------------------------------- _try_lock
\* The mutex and thread fields _try_lock may write, as a record.
Fields ==
  [owner |-> owner_, count |-> count_, owner_prio |-> owner_prio_,
   boosted |-> boosted_prio_, prio |-> prio, acquired |-> acquired_mutexes_,
   res |-> "ok"]

\* variant for sensitivity: the boost recorded also when the ceiling equals
\* the priority of the caller
FirstLockBoostRecorded(t) ==
  LET f0 == [Fields EXCEPT !.owner = t, !.count = 1,
                           !.acquired = [@ EXCEPT ![t] = @ + 1]]
  IN  IF protocol_ = "inherit"
        THEN [f0 EXCEPT !.owner_prio = prio[t]]
      ELSE IF protocol_ = "protect"
        THEN IF prio[t] > prio_ceiling_
               THEN [f0 EXCEPT !.res = "EINVAL"]
             ELSE [f0 EXCEPT !.owner_prio = prio[t],
                             !.boosted = prio_ceiling_,
                             !.prio = [@ EXCEPT ![t] = prio_ceiling_]]
      ELSE f0

\* first lock, lines 576-620
FirstLock(t) ==
  LET f0 == [Fields EXCEPT !.owner = t, !.count = 1,
                           !.acquired = [@ EXCEPT ![t] = @ + 1]]
  IN  IF protocol_ = "inherit"
        THEN [f0 EXCEPT !.owner_prio = prio[t]]
      ELSE IF protocol_ = "protect"
        THEN IF prio[t] > prio_ceiling_
               THEN [f0 EXCEPT !.res = "EINVAL"]
             ELSE IF prio_ceiling_ > prio[t]
               THEN [f0 EXCEPT !.owner_prio = prio[t],
                               !.boosted = prio_ceiling_,
                               !.prio = [@ EXCEPT ![t] = prio_ceiling_]]
             ELSE [f0 EXCEPT !.owner_prio = prio[t]]
      ELSE f0

\* variant for sensitivity: the limit tested with > instead of >=
RelockPastLimit(t) ==
  IF type_ = "recursive"
    THEN IF count_ > max_count_
           THEN [Fields EXCEPT !.res = "EAGAIN"]
         ELSE [Fields EXCEPT !.count = count_ + 1]
  ELSE IF type_ = "errorcheck"
    THEN [Fields EXCEPT !.res = "EDEADLK"]
  ELSE [Fields EXCEPT !.res = "EWOULDBLOCK"]

\* variant for sensitivity: errorcheck handled as normal
RelockBlocks(t) ==
  IF type_ = "recursive"
    THEN IF count_ >= max_count_
           THEN [Fields EXCEPT !.res = "EAGAIN"]
         ELSE [Fields EXCEPT !.count = count_ + 1]
  ELSE [Fields EXCEPT !.res = "EWOULDBLOCK"]

\* variant for sensitivity: every type counts relocks up to max_count_
RelockCounts(t) ==
  IF count_ > max_count_
    THEN [Fields EXCEPT !.res = "EAGAIN"]
  ELSE [Fields EXCEPT !.count = count_ + 1]

\* relock by the owner, lines 623-655
Relock(t) ==
  IF type_ = "recursive"
    THEN IF count_ >= max_count_
           THEN [Fields EXCEPT !.res = "EAGAIN"]
         ELSE [Fields EXCEPT !.count = count_ + 1]
  ELSE IF type_ = "errorcheck"
    THEN [Fields EXCEPT !.res = "EDEADLK"]
  ELSE [Fields EXCEPT !.res = "EWOULDBLOCK"]

\* variant for sensitivity: no inheritance, the owner keeps its priority
NotOwnerLockNoBoost(t) == [Fields EXCEPT !.res = "EWOULDBLOCK"]

\* try to lock when not owner, lines 656-678
NotOwnerLock(t) ==
  IF protocol_ = "inherit" /\ prio[t] > prio[owner_]
    THEN [Fields EXCEPT !.boosted = prio[t],
                        !.prio = [@ EXCEPT ![owner_] = prio[t]],
                        !.res = "EWOULDBLOCK"]
  ELSE [Fields EXCEPT !.res = "EWOULDBLOCK"]

\* variant for sensitivity: a free mutex recognised by count_ = 0 instead
\* of owner_ == nullptr
TryLockByCount(t) ==
  IF count_ = 0 THEN FirstLock(t)
  ELSE IF owner_ = t THEN Relock(t)
  ELSE NotOwnerLock(t)

\* mutex::_try_lock, lines 567-679
_try_lock(t) ==
  IF owner_ = NoThread THEN FirstLock(t)
  ELSE IF owner_ = t THEN Relock(t)
  ELSE NotOwnerLock(t)

\* write the fields back
Store(f) ==
  /\ owner_' = f.owner
  /\ count_' = f.count
  /\ owner_prio_' = f.owner_prio
  /\ boosted_prio_' = f.boosted
  /\ prio' = f.prio
  /\ acquired_mutexes_' = f.acquired

attrs == <<type_, protocol_, robustness_, max_count_>>

\* a call of thread t returns: the thread is between calls again and its
\* locals are gone
Return(t) ==
  /\ pc' = [pc EXCEPT ![t] = "idle"]
  /\ op' = [op EXCEPT ![t] = "none"]
  /\ res' = [res EXCEPT ![t] = "none"]
  /\ timeout_timestamp' = [timeout_timestamp EXCEPT ![t] = 0]
  /\ new_ceiling' = [new_ceiling EXCEPT ![t] = none]

\* the observer at the return of a locking call
NoEntry == [set |-> FALSE, prio |-> none, acquired |-> 0]

LockObserved(t, r) ==
  /\ held' = [held EXCEPT ![t] = @ \/ (r = "ok")]
  /\ entry' = [entry EXCEPT ![t] =
                 IF r = "ok" /\ owner_ = NoThread
                   THEN [set |-> TRUE, prio |-> prio[t],
                         acquired |-> acquired_mutexes_[t]]
                 ELSE @]

\* ------------------------------------------------------------------- Init
\* The base priority of a thread: low, mid, high, ... in the order of the ids.
Base(t) == IF t <= MaxPrio THEN t ELSE MaxPrio

\* Base priorities with a tie: one low thread, the others equal.
Tied(t) == IF t = 1 THEN 1 ELSE 2

\* thread::stack: the static sizes are m and d, no setter was called
StackInit(m, d) ==
  /\ min_size_bytes_ = m
  /\ default_size_bytes_ = d
  /\ tmp = 0
  /\ assert_failed = FALSE

\* The state after construction, the threads at the priorities b.
\* The ceiling is an attribute of every mutex; only protect reads it.
InitMutex(b) ==
  /\ type_ \in Types
  /\ protocol_ \in Protocols
  /\ robustness_ = "stalled"
  /\ max_count_ = IF type_ = "recursive" THEN MaxCount ELSE 1
  /\ prio_ceiling_ \in (IF protocol_ = "protect" THEN Prios ELSE {MaxPrio})
  /\ owner_ = NoThread
  /\ count_ = 0
  /\ owner_prio_ = none
  /\ boosted_prio_ = none
  /\ consistent_ = TRUE
  /\ recoverable_ = TRUE
  /\ list_ = <<>>
  /\ prio = b
  /\ acquired_mutexes_ = [t \in Threads |-> 0]
  /\ interrupted_ = [t \in Threads |-> FALSE]
  /\ pc = [t \in Threads |-> "idle"]
  /\ op = [t \in Threads |-> "none"]
  /\ res = [t \in Threads |-> "none"]
  /\ timeout_timestamp = [t \in Threads |-> 0]
  /\ max_prio = [t \in Threads |-> none]
  /\ new_ceiling = [t \in Threads |-> none]
  /\ clock_list = {}
  /\ in_handler_mode = FALSE
  /\ scs = [t \in Threads |-> 0]
  /\ ucs = [t \in Threads |-> 0]
  /\ ics = 0
  /\ constructed = "ok"
  /\ held = [t \in Threads |-> FALSE]
  /\ entry = [t \in Threads |-> NoEntry]
  /\ nullDeref = FALSE

InitWith(b) == InitMutex(b) /\ StackInit(1, 1)

Init == InitWith([t \in Threads |-> Base(t)])

InitFifo == InitWith([t \in Threads |-> Tied(t)])

\* ------------------------------------------------------------ construction
\* mutex::attributes, the argument of the constructor
Attributes ==
  [mx_type : Types, mx_protocol : Protocols,
   mx_robustness : {"stalled", "robust"}, mx_max_count : 1..MaxCount,
   mx_priority_ceiling : Prios]

\* variant for sensitivity: the count limit of the attributes for every type
MaxCountAsGiven(a) == a.mx_max_count

\* the initialiser of max_count_, line 475
MaxCountOf(a) == IF a.mx_type = "recursive" THEN a.mx_max_count ELSE 1

\* the os_assert_throw() lines of the constructor, 482 and 498
CtorResult(a) ==
  IF in_handler_mode THEN "EPERM"
  ELSE IF a.mx_robustness = "robust" THEN "ENOTSUP"
  ELSE "ok"

\* The storage of a mutex before its construction: the members that the
\* body of the constructor assigns hold anything.
InitRaw ==
  /\ type_ = "normal"
  /\ protocol_ = "none"
  /\ robustness_ = "stalled"
  /\ max_count_ = 1
  /\ prio_ceiling_ = MaxPrio
  /\ owner_ = NoThread
  /\ count_ \in 0..MaxCount
  /\ owner_prio_ = none
  /\ boosted_prio_ = none
  /\ consistent_ \in BOOLEAN
  /\ recoverable_ \in BOOLEAN
  /\ list_ = <<>>
  /\ prio = [t \in Threads |-> Base(t)]
  /\ acquired_mutexes_ = [t \in Threads |-> 0]
  /\ interrupted_ = [t \in Threads |-> FALSE]
  /\ pc = [t \in Threads |-> "idle"]
  /\ op = [t \in Threads |-> "none"]
  /\ res = [t \in Threads |-> "none"]
  /\ timeout_timestamp = [t \in Threads |-> 0]
  /\ max_prio = [t \in Threads |-> none]
  /\ new_ceiling = [t \in Threads |-> none]
  /\ clock_list = {}
  /\ in_handler_mode \in BOOLEAN
  /\ scs = [t \in Threads |-> 0]
  /\ ucs = [t \in Threads |-> 0]
  /\ ics = 0
  /\ constructed = "none"
  /\ held = [t \in Threads |-> FALSE]
  /\ entry = [t \in Threads |-> NoEntry]
  /\ nullDeref = FALSE
  /\ StackInit(1, 1)

\* mutex::mutex (name, attr), lines 470-503: the member initialisers, the
\* test of the context, the ceiling, the test of the robustness, _init().
\* A test that fails throws and leaves what was written before it.
Construct(a) ==
  /\ constructed = "none"
  /\ Running
  /\ constructed' = CtorResult(a)
  /\ type_' = a.mx_type
  /\ protocol_' = a.mx_protocol
  /\ robustness_' = a.mx_robustness
  /\ max_count_' = MaxCountOf(a)
  /\ owner_' = NoThread
  /\ owner_prio_' = none
  /\ boosted_prio_' = none
  /\ list_' = <<>>
  /\ prio_ceiling_' = IF in_handler_mode THEN prio_ceiling_
                       ELSE a.mx_priority_ceiling
  /\ IF CtorResult(a) = "ok"
       THEN count_' = 0 /\ consistent_' = TRUE /\ recoverable_' = TRUE
       ELSE UNCHANGED <<count_, consistent_, recoverable_>>
  /\ UNCHANGED <<tvars, cvars, gvars, in_handler_mode, scs, ucs, ics, svars>>

\* ---------------------------------------------------------------- try_lock
\* lines 845-877
try_lock(t) ==
  /\ Caller(t)
  /\ UNCHANGED xvars
  /\ IF EntryCheck("try_lock") # "ok"
       THEN Refused
     ELSE IF ~recoverable_
       THEN /\ Return(t)
            /\ UNCHANGED <<mvars, prio, acquired_mutexes_, held, entry,
                           interrupted_, max_prio, cvars, nullDeref>>
       ELSE LET f == _try_lock(t)
            IN  /\ Store(f)
                /\ Return(t)
                /\ LockObserved(t, f.res)
                /\ UNCHANGED <<attrs, prio_ceiling_, consistent_, recoverable_,
                               list_, interrupted_, max_prio, cvars, nullDeref>>

\* ------------------------------------------------- lock, timed_lock: entry
\* The return of the lock() that the prio_ceiling setter calls: an error is
\* the setter's result, success continues with the store of the ceiling.
LockReturn(t, o, r, c) ==
  IF o = "prio_ceiling" /\ r = "ok"
    THEN /\ pc' = [pc EXCEPT ![t] = "ceil_set"]
         /\ op' = [op EXCEPT ![t] = o]
         /\ new_ceiling' = [new_ceiling EXCEPT ![t] = c]
         /\ UNCHANGED <<res, timeout_timestamp>>
    ELSE Return(t)

\* The first _try_lock of lock() (lines 734-761) and timed_lock() (lines
\* 929-972); o is the call, d the duration of a timed_lock or the new ceiling
\* of the prio_ceiling setter.
Enter(t, o, d) ==
  /\ Caller(t)
  /\ UNCHANGED xvars
  /\ IF EntryCheck(o) # "ok"
       THEN Refused
     ELSE IF ~recoverable_
       THEN /\ Return(t)
            /\ UNCHANGED <<mvars, prio, acquired_mutexes_, held, entry,
                           interrupted_, max_prio, cvars, nullDeref>>
       ELSE LET f == _try_lock(t)
            IN  /\ Store(f)
                /\ UNCHANGED <<attrs, prio_ceiling_, consistent_, recoverable_,
                               list_, interrupted_, max_prio, cvars, nullDeref>>
                /\ IF f.res # "EWOULDBLOCK"
                     THEN /\ LockReturn(t, o, f.res, d)
                          /\ LockObserved(t, f.res)
                     ELSE /\ pc' = [pc EXCEPT ![t] = "retry"]
                          /\ op' = [op EXCEPT ![t] = o]
                          /\ timeout_timestamp' =
                               [timeout_timestamp EXCEPT ![t] =
                                  IF o = "timed_lock" THEN steady_now + d
                                  ELSE 0]
                          /\ new_ceiling' =
                               [new_ceiling EXCEPT ![t] =
                                  IF o = "prio_ceiling" THEN d ELSE none]
                          /\ UNCHANGED <<res, held, entry>>

lock(t) == Enter(t, "lock", 0)

timed_lock(t) == \E d \in 0..MaxDuration : Enter(t, "timed_lock", d)

\* -------------------------------------------------- the wait loop: one pass
\* lines 771-791 and 976-997: _try_lock again, then link and suspend
Loop(t) ==
  /\ pc[t] = "retry"
  /\ UNCHANGED xvars
  /\ CanRun(t)
  /\ LET f == _try_lock(t)
     IN  /\ Store(f)
         /\ UNCHANGED <<attrs, prio_ceiling_, consistent_, recoverable_>>
         /\ IF f.res # "EWOULDBLOCK"
              THEN /\ LockReturn(t, op[t], f.res, new_ceiling[t])
                   /\ LockObserved(t, f.res)
                   /\ UNCHANGED <<list_, clock_list>>
              ELSE /\ list_' = Link(list_, t, f.prio)
                   /\ clock_list' = IF op[t] = "timed_lock"
                                      THEN clock_list \cup {t}
                                      ELSE clock_list
                   /\ pc' = [pc EXCEPT ![t] = "wait"]
                   /\ UNCHANGED <<op, res, timeout_timestamp, new_ceiling, held, entry>>
  /\ UNCHANGED <<interrupted_, max_prio, nullDeref>>

\* variant for sensitivity: the deadline tested before the interrupted flag
WaitResultDeadlineFirst(t) ==
  IF op[t] = "timed_lock" /\ steady_now >= timeout_timestamp[t]
    THEN "ETIMEDOUT"
  ELSE IF interrupted_[t] THEN "EINTR"
  ELSE "ok"

\* variant for sensitivity: every resume taken for an interrupt
WaitResultInterrupted(t) == "EINTR"

\* the result of the wait after a resume, lines 799-805 and 1006-1022
WaitResult(t) ==
  IF interrupted_[t] THEN "EINTR"
  ELSE IF op[t] = "timed_lock" /\ steady_now >= timeout_timestamp[t]
    THEN "ETIMEDOUT"
  ELSE "ok"

\* the scan of the waiting list on the failure path of timed_lock, lines
\* 1025-1041: the priority to write, none when nothing is to be written
Scan(l) == IF boosted_prio_ # none THEN MaxWaiterPrio(l) ELSE none

\* lines 793-806 and 999-1041: after the resume, unlink, then the checks
Resumed(t) ==
  /\ pc[t] = "woken"
  /\ UNCHANGED xvars
  /\ CanRun(t)
  /\ LET l == Remove(list_, t)
         r == WaitResult(t)
         m == IF op[t] = "timed_lock" THEN Scan(l) ELSE none
     IN  /\ list_' = l
         /\ clock_list' = clock_list \ {t}
         /\ IF r = "ok"
              THEN /\ pc' = [pc EXCEPT ![t] = "retry"]
                   /\ UNCHANGED <<op, res, timeout_timestamp, new_ceiling, max_prio>>
              ELSE IF m # none
                THEN /\ pc' = [pc EXCEPT ![t] = "reeval"]
                     /\ res' = [res EXCEPT ![t] = r]
                     /\ max_prio' = [max_prio EXCEPT ![t] = m]
                     /\ UNCHANGED <<op, timeout_timestamp, new_ceiling>>
                ELSE /\ Return(t)
                     /\ UNCHANGED max_prio
  /\ UNCHANGED <<attrs, prio_ceiling_, owner_, count_, owner_prio_,
                 boosted_prio_, consistent_, recoverable_, prio,
                 acquired_mutexes_, interrupted_, held, entry, nullDeref>>

\* lines 1043-1047: the writes of the re-evaluation, outside any critical
\* section; owner_ may have become null since the scan
Reeval(t) ==
  /\ pc[t] = "reeval"
  /\ UNCHANGED xvars
  /\ CanRun(t)
  /\ boosted_prio_' = max_prio[t]
  /\ IF owner_ # NoThread
       THEN /\ prio' = [prio EXCEPT ![owner_] = max_prio[t]]
            /\ UNCHANGED nullDeref
       ELSE /\ nullDeref' = TRUE
            /\ UNCHANGED prio
  /\ max_prio' = [max_prio EXCEPT ![t] = none]
  /\ Return(t)
  /\ UNCHANGED <<attrs, prio_ceiling_, owner_, count_, owner_prio_,
                 consistent_, recoverable_, list_, acquired_mutexes_,
                 interrupted_, cvars, held, entry>>

\* ------------------------------------------------------------------ unlock
\* waiting_threads_list::resume_one: the head is unlinked and made ready
ResumeOne(p) ==
  IF Len(list_) = 0 THEN p
  ELSE [p EXCEPT ![Head(list_)] = MadeReady(@)]

\* variant for sensitivity: the release clears boosted_prio_ but does not
\* give the owner its saved priority back
ReleaseNoRestore(t) ==
  IF owner_ = t
    THEN IF type_ = "recursive" /\ count_ > 1
           THEN [Fields EXCEPT !.count = count_ - 1]
         ELSE [Fields EXCEPT
                 !.boosted = none,
                 !.acquired = [@ EXCEPT ![t] = @ - 1],
                 !.owner = NoThread,
                 !.count = 0]
  ELSE IF type_ \in {"errorcheck", "recursive"} \/ robustness_ = "robust"
    THEN [Fields EXCEPT !.res = "EPERM"]
  ELSE [Fields EXCEPT !.res = "ENOTRECOVERABLE"]

\* variant for sensitivity: the release does not test who calls
ReleaseByAnyone(t) ==
  IF type_ = "recursive" /\ count_ > 1
    THEN [Fields EXCEPT !.count = count_ - 1]
  ELSE [Fields EXCEPT
          !.boosted = none,
          !.owner = NoThread,
          !.count = 0]

\* variant for sensitivity: the release hands the mutex to the head of the
\* waiting list
ReleaseHandOver(t) ==
  IF owner_ = t
    THEN IF type_ = "recursive" /\ count_ > 1
           THEN [Fields EXCEPT !.count = count_ - 1]
         ELSE [Fields EXCEPT
                 !.prio = IF boosted_prio_ # none
                            THEN [@ EXCEPT ![t] = owner_prio_] ELSE @,
                 !.boosted = none,
                 !.acquired = [@ EXCEPT ![t] = @ - 1],
                 !.owner = IF Len(list_) > 0 THEN Head(list_) ELSE NoThread,
                 !.count = IF Len(list_) > 0 THEN 1 ELSE 0]
  ELSE IF type_ \in {"errorcheck", "recursive"} \/ robustness_ = "robust"
    THEN [Fields EXCEPT !.res = "EPERM"]
  ELSE [Fields EXCEPT !.res = "ENOTRECOVERABLE"]

\* the critical section of unlock(), lines 1094-1152
Release(t) ==
  IF owner_ = t
    THEN IF type_ = "recursive" /\ count_ > 1
           THEN [Fields EXCEPT !.count = count_ - 1]
         ELSE [Fields EXCEPT
                 !.prio = IF boosted_prio_ # none
                            THEN [@ EXCEPT ![t] = owner_prio_] ELSE @,
                 !.boosted = none,
                 !.acquired = [@ EXCEPT ![t] = @ - 1],
                 !.owner = NoThread,
                 !.count = 0]
  ELSE IF type_ \in {"errorcheck", "recursive"} \/ robustness_ = "robust"
    THEN [Fields EXCEPT !.res = "EPERM"]
  ELSE [Fields EXCEPT !.res = "ENOTRECOVERABLE"]

\* the last release of the owner's unlock (lines 1111-1130)
Final(t) == owner_ = t /\ ~(type_ = "recursive" /\ count_ > 1)

\* the effects of unlock() by t but for its return
Unlocking(t) ==
  LET f == Release(t)
  IN  /\ Store(f)
      /\ list_' = IF Final(t) /\ Len(list_) > 0 THEN Tail(list_) ELSE list_
      /\ held' = [held EXCEPT ![t] = IF Final(t) THEN FALSE ELSE @]
      /\ entry' = [entry EXCEPT ![t] = IF Final(t) THEN NoEntry ELSE @]
      /\ UNCHANGED <<attrs, prio_ceiling_, consistent_, recoverable_>>

unlock(t) ==
  /\ Caller(t)
  /\ UNCHANGED xvars
  /\ IF EntryCheck("unlock") # "ok"
       THEN Refused
       ELSE /\ Unlocking(t)
            /\ pc' = IF Final(t) THEN ResumeOne(pc) ELSE pc
            /\ UNCHANGED <<op, res, timeout_timestamp, new_ceiling,
                           interrupted_, max_prio, cvars, nullDeref>>

\* ------------------------------------------------------- prio_ceiling (set)
\* lines 1208-1229: lock()
prio_ceiling(t) == \E c \in Prios : Enter(t, "prio_ceiling", c)

\* variant for sensitivity: the new ceiling is not stored
CeilSetDropped(t) ==
  /\ pc[t] = "ceil_set"
  /\ UNCHANGED xvars
  /\ CanRun(t)
  /\ prio_ceiling_' = prio_ceiling_
  /\ pc' = [pc EXCEPT ![t] = "ceil_unlock"]
  /\ UNCHANGED <<attrs, owner_, count_, owner_prio_, boosted_prio_,
                 consistent_, recoverable_, list_, prio, acquired_mutexes_,
                 interrupted_, op, res, timeout_timestamp, new_ceiling, max_prio, cvars,
                 held, entry, nullDeref>>

\* lines 1231-1236: the ceiling is swapped, outside any critical section
CeilSet(t) ==
  /\ pc[t] = "ceil_set"
  /\ UNCHANGED xvars
  /\ CanRun(t)
  /\ prio_ceiling_' = new_ceiling[t]
  /\ pc' = [pc EXCEPT ![t] = "ceil_unlock"]
  /\ UNCHANGED <<attrs, owner_, count_, owner_prio_, boosted_prio_,
                 consistent_, recoverable_, list_, prio, acquired_mutexes_,
                 interrupted_, op, res, timeout_timestamp, new_ceiling, max_prio, cvars,
                 held, entry, nullDeref>>

\* lines 1238-1240: unlock(), its result dropped
CeilUnlock(t) ==
  /\ pc[t] = "ceil_unlock"
  /\ UNCHANGED xvars
  /\ CanRun(t)
  /\ Unlocking(t)
  /\ pc' = [(IF Final(t) THEN ResumeOne(pc) ELSE pc) EXCEPT ![t] = "idle"]
  /\ op' = [op EXCEPT ![t] = "none"]
  /\ new_ceiling' = [new_ceiling EXCEPT ![t] = none]
  /\ UNCHANGED <<res, timeout_timestamp, interrupted_, max_prio, cvars,
                 nullDeref>>

\* ------------------------------------------------------------------- reset
\* waiting_threads_list::resume_all
ResumeAll(p) ==
  [u \in Threads |-> IF InList(u) THEN MadeReady(p[u]) ELSE p[u]]

\* mutex::_init, lines 546-561
_init ==
  /\ count_' = 0
  /\ consistent_' = TRUE
  /\ recoverable_' = TRUE
  /\ list_' = <<>>
  /\ pc' = ResumeAll(pc)
  /\ UNCHANGED <<owner_, owner_prio_, boosted_prio_>>

\* lines 1307-1325
reset(t) ==
  /\ Caller(t)
  /\ UNCHANGED xvars
  /\ IF EntryCheck("reset") # "ok"
       THEN Refused
       ELSE /\ _init
            /\ UNCHANGED <<attrs, prio_ceiling_, prio, acquired_mutexes_,
                           interrupted_, op, res, timeout_timestamp,
                           new_ceiling, max_prio, cvars, held, entry,
                           nullDeref>>

\* -------------------------------------------------------------- consistent
\* the result of consistent(), lines 1280-1282
ConsistentResult ==
  IF EntryCheck("consistent") # "ok" THEN EntryCheck("consistent")
  ELSE IF robustness_ # "robust" THEN "EINVAL"
  ELSE IF consistent_ THEN "EINVAL"
  ELSE "ok"

\* lines 1273-1294
consistent(t) ==
  /\ Caller(t)
  /\ UNCHANGED xvars
  /\ IF ConsistentResult # "ok"
       THEN Refused
       ELSE /\ consistent_' = TRUE
            /\ UNCHANGED <<attrs, prio_ceiling_, owner_, count_, owner_prio_,
                           boosted_prio_, recoverable_, list_, tvars, cvars,
                           gvars>>

\* ------------------------------------------------------------- environment
\* the clock interrupt: one unit of time passes
Tick ==
  /\ Enabled
  /\ UNCHANGED xvars
  /\ \E t \in Threads : timeout_timestamp[t] > steady_now
  /\ timeout_timestamp' =
       [t \in Threads |-> IF timeout_timestamp[t] > steady_now
                            THEN timeout_timestamp[t] - 1
                            ELSE timeout_timestamp[t]]
  /\ UNCHANGED <<mvars, prio, acquired_mutexes_, interrupted_, pc, op, res,
                 max_prio, new_ceiling, clock_list, held, entry, nullDeref>>

\* the clock's timeout callback for an expired node: the thread is unlinked
\* and made ready
Timeout(t) ==
  /\ Enabled
  /\ UNCHANGED xvars
  /\ t \in clock_list
  /\ steady_now >= timeout_timestamp[t]
  /\ clock_list' = clock_list \ {t}
  /\ list_' = Remove(list_, t)
  /\ pc' = [pc EXCEPT ![t] = MadeReady(@)]
  /\ UNCHANGED <<attrs, prio_ceiling_, owner_, count_, owner_prio_,
                 boosted_prio_, consistent_, recoverable_, prio,
                 acquired_mutexes_, interrupted_, op, res, timeout_timestamp, new_ceiling,
                 max_prio, held, entry, nullDeref>>

\* thread::interrupt(true) on a thread blocked in its wait: the flag is set
\* and the thread resumed; its nodes stay linked
Interrupt(t) ==
  /\ Enabled
  /\ UNCHANGED xvars
  /\ pc[t] \in {"wait", "linked"}
  /\ ~interrupted_[t]
  /\ interrupted_' = [interrupted_ EXCEPT ![t] = TRUE]
  /\ pc' = [pc EXCEPT ![t] = MadeReady(@)]
  /\ UNCHANGED <<mvars, prio, acquired_mutexes_, op, res, timeout_timestamp, new_ceiling,
                 max_prio, cvars, held, entry, nullDeref>>

\* thread::interrupt(false) by the thread itself, between calls
ClearInterrupt(t) ==
  /\ pc[t] = "idle"
  /\ UNCHANGED xvars
  /\ CanRun(t)
  /\ interrupted_[t]
  /\ interrupted_' = [interrupted_ EXCEPT ![t] = FALSE]
  /\ UNCHANGED <<mvars, prio, acquired_mutexes_, pc, op, res,
                 timeout_timestamp, new_ceiling, max_prio, cvars, held, entry, nullDeref>>

\* ---------------------------------------------------------------- context
\* an interrupt is taken: its handler runs
IsrEnter ==
  /\ Enabled
  /\ ~in_handler_mode
  /\ in_handler_mode' = TRUE
  /\ UNCHANGED <<mvars, tvars, cvars, gvars, scs, ucs, ics, constructed, svars>>

\* the handler returns
IsrExit ==
  /\ Running
  /\ in_handler_mode
  /\ in_handler_mode' = FALSE
  /\ UNCHANGED <<mvars, tvars, cvars, gvars, scs, ucs, ics, constructed, svars>>

\* a thread opens a scheduler critical section of its own, between calls
SchedLock(t) ==
  /\ pc[t] = "idle"
  /\ CanRun(t)
  /\ scs[t] = 0
  /\ scs' = [scs EXCEPT ![t] = 1]
  /\ UNCHANGED <<mvars, tvars, cvars, gvars, in_handler_mode, ucs, ics,
                 constructed, svars>>

\* and closes it
SchedUnlock(t) ==
  /\ pc[t] = "idle"
  /\ CanRun(t)
  /\ scs[t] > 0
  /\ scs' = [scs EXCEPT ![t] = 0]
  /\ UNCHANGED <<mvars, tvars, cvars, gvars, in_handler_mode, ucs, ics,
                 constructed, svars>>

\* lock, try_lock, timed_lock, unlock, reset, the clock and interrupts
Next ==
  \/ \E t \in Threads : try_lock(t)
  \/ \E t \in Threads : lock(t)
  \/ \E t \in Threads : timed_lock(t)
  \/ \E t \in Threads : Loop(t)
  \/ \E t \in Threads : Resumed(t)
  \/ \E t \in Threads : Reeval(t)
  \/ \E t \in Threads : unlock(t)
  \/ \E t \in Threads : reset(t)
  \/ \E t \in Threads : Timeout(t)
  \/ \E t \in Threads : Interrupt(t)
  \/ \E t \in Threads : ClearInterrupt(t)
  \/ Tick

Spec == Init /\ [][Next]_vars

\* the same operations on threads of which some have equal priorities
SpecFifo == InitFifo /\ [][Next]_vars

\* the untimed calls with the prio_ceiling setter
NextCeiling ==
  \/ \E t \in Threads : try_lock(t)
  \/ \E t \in Threads : lock(t)
  \/ \E t \in Threads : Loop(t)
  \/ \E t \in Threads : Resumed(t)
  \/ \E t \in Threads : unlock(t)
  \/ \E t \in Threads : prio_ceiling(t)
  \/ \E t \in Threads : CeilSet(t)
  \/ \E t \in Threads : CeilUnlock(t)
  \/ \E t \in Threads : reset(t)
  \/ \E t \in Threads : Interrupt(t)
  \/ \E t \in Threads : ClearInterrupt(t)

SpecCeiling == Init /\ [][NextCeiling]_vars

\* the construction of a mutex from every attribute value, in thread and in
\* handler mode
NextCtor == \E a \in Attributes : Construct(a)

SpecCtor == InitRaw /\ [][NextCtor]_vars

\* The calls in every context: threads, threads that locked the scheduler,
\* interrupt handlers.  All threads but the last make calls.
Callers == 1..(NumThreads - 1)

NextContext ==
  \/ \E t \in Callers : try_lock(t)
  \/ \E t \in Callers : lock(t)
  \/ \E t \in Callers : timed_lock(t)
  \/ \E t \in Callers : Loop(t)
  \/ \E t \in Callers : Resumed(t)
  \/ \E t \in Callers : Reeval(t)
  \/ \E t \in Callers : unlock(t)
  \/ \E t \in Callers : prio_ceiling(t)
  \/ \E t \in Callers : CeilSet(t)
  \/ \E t \in Callers : CeilUnlock(t)
  \/ \E t \in Callers : reset(t)
  \/ \E t \in Callers : consistent(t)
  \/ \E t \in Callers : Timeout(t)
  \/ \E t \in Callers : SchedLock(t)
  \/ \E t \in Callers : SchedUnlock(t)
  \/ IsrEnter
  \/ IsrExit
  \/ Tick

SpecContext == Init /\ [][NextContext]_vars

\* The hand-over scenario: threads lock and unlock one at a time.  A lock()
\* is called only while every thread is between calls, and not by the owner,
\* so that a mutex in use has at most one waiter and nobody else attempts to
\* lock until that waiter has returned; nobody is interrupted.
HandOverLock(t) ==
  /\ \A u \in Threads : pc[u] = "idle"
  /\ owner_ # t
  /\ lock(t)

NextHandOver ==
  \/ \E t \in Threads : HandOverLock(t)
  \/ \E t \in Threads : Loop(t)
  \/ \E t \in Threads : Resumed(t)
  \/ \E t \in Threads : unlock(t)

\* a ready thread that no ready thread of higher priority keeps from the
\* processor runs eventually
FairHandOver ==
  \A t \in Threads : WF_vars(Loop(t)) /\ WF_vars(Resumed(t))

SpecHandOver == Init /\ [][NextHandOver]_vars /\ FairHandOver

\* ------------------------------------------------------------ thread::stack
Sizes == 0..MaxSize

\* thread::stack::min_size (size_bytes), part_002 lines 1878-1884
min_size(size_bytes) ==
  /\ ~assert_failed
  /\ tmp' = min_size_bytes_
  /\ min_size_bytes_' = size_bytes
  /\ UNCHANGED <<default_size_bytes_, assert_failed, mvars, tvars, cvars,
                 gvars, in_handler_mode, scs, ucs, ics, constructed>>

\* thread::stack::default_size (size_bytes), part_002 lines 1892-1901; a
\* failed assert() ends the program
default_size(size_bytes) ==
  /\ ~assert_failed
  /\ IF size_bytes # 0 /\ size_bytes >= min_size_bytes_
       THEN /\ tmp' = default_size_bytes_
            /\ default_size_bytes_' = size_bytes
            /\ UNCHANGED assert_failed
       ELSE /\ assert_failed' = TRUE
            /\ UNCHANGED <<default_size_bytes_, tmp>>
  /\ UNCHANGED <<min_size_bytes_, mvars, tvars, cvars, gvars,
                 in_handler_mode, scs, ucs, ics, constructed>>

\* the sizes the port gives at start: positive, the default not below the
\* minimum
InitStack ==
  /\ type_ = "normal"
  /\ protocol_ = "none"
  /\ InitMutex([t \in Threads |-> Base(t)])
  /\ \E m \in 1..MaxSize : \E d \in m..MaxSize : StackInit(m, d)

NextStack ==
  \/ \E size_bytes \in Sizes : min_size(size_bytes)
  \/ \E size_bytes \in Sizes : default_size(size_bytes)

SpecStack == InitStack /\ [][NextStack]_vars

\* The calls that wait, with the clock: lock, timed_lock, unlock, the
\* timeout callback and the tick.
NextTimed ==
  \/ \E t \in Threads : lock(t)
  \/ \E t \in Threads : timed_lock(t)
  \/ \E t \in Threads : Loop(t)
  \/ \E t \in Threads : Resumed(t)
  \/ \E t \in Threads : Reeval(t)
  \/ \E t \in Threads : unlock(t)
  \/ \E t \in Threads : Timeout(t)
  \/ Tick

\* no ready thread of higher priority keeps thread t from the processor
Unhindered(t) ==
  \A u \in Threads \ {t} : Ready(u) => prio[u] <= prio[t]

\* The clock advances and its callback runs for an expired node (both are
\* interrupt handlers, which no thread keeps out for ever); threads of higher
\* priority do not keep the processor for ever, and a thread that can run
\* again and again does run.
FairTimed ==
  /\ WF_vars(Tick)
  /\ \A t \in Threads : WF_vars(Timeout(t))
  /\ \A t \in Threads : []<>Unhindered(t)
  /\ \A t \in Threads :
       SF_vars(Loop(t)) /\ SF_vars(Resumed(t)) /\ SF_vars(Reeval(t))

SpecTimed == Init /\ [][NextTimed]_vars /\ FairTimed

\* ------------------------------------------ the calls, section by section
\* The same calls with one step for each run of code between two section
\* boundaries: the constructor of a scheduler::critical_section,
\* scheduler::uncritical_section or interrupts::critical_section object
\* enters the section, the end of its scope (a return included) exits it.
\* The labels: scs_<part> in the scheduler critical section of <part>
\* before _try_lock or the body, ucs_<part> in the uncritical section of
\* _try_lock, post_<part> after _try_lock has returned, ics in the interrupt
\* critical section, linked (ready when resumed meanwhile) after it.
Section(o) ==
  IF o \in {"lock", "timed_lock"} THEN "scs_first"
  ELSE IF o = "try_lock" THEN "scs_try"
  ELSE IF o = "unlock" THEN "scs_unlock"
  ELSE "scs_reset"

Uncritical(l) ==
  IF l = "scs_first" THEN "ucs_first"
  ELSE IF l = "scs_loop" THEN "ucs_loop"
  ELSE "ucs_try"

Post(l) ==
  IF l \in {"scs_first", "ucs_first"} THEN "post_first"
  ELSE IF l \in {"scs_loop", "ucs_loop"} THEN "post_loop"
  ELSE "post_try"

\* variant for sensitivity: the section is left open
SectionExitSkipped(d, t) == d

\* the end of the scope of a section object of thread t
SectionExit(d, t) == [d EXCEPT ![t] = @ - 1]

\* the constructor of a section object of thread t
SectionEnter(d, t) == [d EXCEPT ![t] = @ + 1]

\* The head of a call up to the first scheduler critical section: lines
\* 734-753 (lock), 853-870 (try_lock), 929-951 (timed_lock), 1085-1096
\* (unlock), 1314-1318 (reset).
Begin(t, o) ==
  /\ Caller(t)
  /\ UNCHANGED <<in_handler_mode, ucs, ics, constructed, svars>>
  /\ IF EntryCheck(o) # "ok"
       THEN Refused /\ UNCHANGED scs
     ELSE IF o \in {"lock", "timed_lock", "try_lock"} /\ ~recoverable_
       THEN /\ Return(t)
            /\ UNCHANGED <<mvars, prio, acquired_mutexes_, interrupted_,
                           max_prio, cvars, gvars, scs>>
       ELSE /\ scs' = SectionEnter(scs, t)
            /\ pc' = [pc EXCEPT ![t] = Section(o)]
            /\ op' = [op EXCEPT ![t] = o]
            /\ UNCHANGED <<mvars, prio, acquired_mutexes_, interrupted_, res,
                           timeout_timestamp, max_prio, new_ceiling, cvars,
                           gvars>>

\* _try_lock (lines 567-679) up to its return or, where it is about to write
\* a priority, up to the entry of its uncritical section (lines 609, 669)
TryLockBody(t) ==
  /\ pc[t] \in {"scs_first", "scs_loop", "scs_try"}
  /\ CanRun(t)
  /\ LET f == _try_lock(t)
     IN  /\ owner_' = f.owner
         /\ count_' = f.count
         /\ owner_prio_' = f.owner_prio
         /\ boosted_prio_' = f.boosted
         /\ acquired_mutexes_' = f.acquired
         /\ res' = [res EXCEPT ![t] = f.res]
         /\ LockObserved(t, f.res)
         /\ IF f.prio # prio
              THEN /\ ucs' = SectionEnter(ucs, t)
                   /\ pc' = [pc EXCEPT ![t] = Uncritical(@)]
              ELSE /\ pc' = [pc EXCEPT ![t] = Post(@)]
                   /\ UNCHANGED ucs
  /\ UNCHANGED <<attrs, prio_ceiling_, consistent_, recoverable_, list_,
                 prio, interrupted_, op, timeout_timestamp, max_prio,
                 new_ceiling, cvars, nullDeref, in_handler_mode, scs, ics,
                 constructed, svars>>

\* lines 611 and 672 with the end of the uncritical section: the owner's
\* priority is written from the fields as they are by now
PriorityWrite(t) ==
  /\ pc[t] \in {"ucs_first", "ucs_loop", "ucs_try"}
  /\ CanRun(t)
  /\ IF owner_ # NoThread
       THEN /\ prio' = [prio EXCEPT ![owner_] = boosted_prio_]
            /\ UNCHANGED nullDeref
       ELSE /\ nullDeref' = TRUE
            /\ UNCHANGED prio
  /\ ucs' = SectionExit(ucs, t)
  /\ pc' = [pc EXCEPT ![t] = Post(@)]
  /\ UNCHANGED <<mvars, acquired_mutexes_, interrupted_, op, res,
                 timeout_timestamp, max_prio, new_ceiling, cvars, held, entry,
                 in_handler_mode, scs, ics, constructed, svars>>

\* lines 756-761 and 954-968: the first _try_lock has returned; the section
\* ends with the return or before the loop, and timed_lock computes its
\* deadline
AfterFirst(t) ==
  /\ pc[t] = "post_first"
  /\ CanRun(t)
  /\ scs' = SectionExit(scs, t)
  /\ IF res[t] # "EWOULDBLOCK"
       THEN Return(t)
       ELSE /\ pc' = [pc EXCEPT ![t] = "retry"]
            /\ \E d \in 0..MaxDuration :
                 timeout_timestamp' =
                   [timeout_timestamp EXCEPT ![t] =
                      IF op[t] = "timed_lock" THEN steady_now + d ELSE 0]
            /\ UNCHANGED <<op, res, new_ceiling>>
  /\ UNCHANGED <<mvars, prio, acquired_mutexes_, interrupted_, max_prio,
                 cvars, gvars, in_handler_mode, ucs, ics, constructed, svars>>

\* lines 773 and 978: the scheduler critical section of one pass of the loop
LoopEnter(t) ==
  /\ pc[t] = "retry"
  /\ CanRun(t)
  /\ scs' = SectionEnter(scs, t)
  /\ pc' = [pc EXCEPT ![t] = "scs_loop"]
  /\ UNCHANGED <<mvars, prio, acquired_mutexes_, interrupted_, op, res,
                 timeout_timestamp, max_prio, new_ceiling, cvars, gvars,
                 in_handler_mode, ucs, ics, constructed, svars>>

\* lines 776-783 and 981-988: the _try_lock of the loop has returned; the
\* section ends with the return, or the interrupt critical section begins
AfterLoop(t) ==
  /\ pc[t] = "post_loop"
  /\ CanRun(t)
  /\ IF res[t] # "EWOULDBLOCK"
       THEN /\ Return(t)
            /\ scs' = SectionExit(scs, t)
            /\ UNCHANGED ics
       ELSE /\ pc' = [pc EXCEPT ![t] = "ics"]
            /\ ics' = ics + 1
            /\ UNCHANGED <<op, res, timeout_timestamp, new_ceiling, scs>>
  /\ UNCHANGED <<mvars, prio, acquired_mutexes_, interrupted_, max_prio,
                 cvars, gvars, in_handler_mode, ucs, constructed, svars>>

\* lines 785-788 and 990-995: the nodes are linked, the thread is marked
\* suspended, the interrupt critical section ends
LinkNode(t) ==
  /\ pc[t] = "ics"
  /\ CanRun(t)
  /\ list_' = Link(list_, t, prio)
  /\ clock_list' = IF op[t] = "timed_lock" THEN clock_list \cup {t}
                   ELSE clock_list
  /\ ics' = ics - 1
  /\ pc' = [pc EXCEPT ![t] = "linked"]
  /\ UNCHANGED <<attrs, prio_ceiling_, owner_, count_, owner_prio_,
                 boosted_prio_, consistent_, recoverable_, prio,
                 acquired_mutexes_, interrupted_, op, res, timeout_timestamp,
                 max_prio, new_ceiling, gvars, in_handler_mode, scs, ucs,
                 constructed, svars>>

\* lines 790-793 and 996-999: the scheduler critical section ends, then
\* reschedule(): the thread is suspended unless it was made ready meanwhile
Suspend(t) ==
  /\ pc[t] \in {"linked", "ready"}
  /\ CanRun(t)
  /\ scs' = SectionExit(scs, t)
  /\ pc' = [pc EXCEPT ![t] = IF @ = "linked" THEN "wait" ELSE "woken"]
  /\ UNCHANGED <<mvars, prio, acquired_mutexes_, interrupted_, op, res,
                 timeout_timestamp, max_prio, new_ceiling, cvars, gvars,
                 in_handler_mode, ucs, ics, constructed, svars>>

\* line 872: try_lock returns what _try_lock returned
AfterTry(t) ==
  /\ pc[t] = "post_try"
  /\ CanRun(t)
  /\ scs' = SectionExit(scs, t)
  /\ Return(t)
  /\ UNCHANGED <<mvars, prio, acquired_mutexes_, interrupted_, max_prio,
                 cvars, gvars, in_handler_mode, ucs, ics, constructed, svars>>

\* lines 1098-1150: the body of unlock() and its return
UnlockBody(t) ==
  /\ pc[t] = "scs_unlock"
  /\ CanRun(t)
  /\ Unlocking(t)
  /\ scs' = SectionExit(scs, t)
  /\ pc' = [(IF Final(t) THEN ResumeOne(pc) ELSE pc) EXCEPT ![t] = "idle"]
  /\ op' = [op EXCEPT ![t] = "none"]
  /\ UNCHANGED <<res, timeout_timestamp, new_ceiling, interrupted_, max_prio,
                 cvars, nullDeref, in_handler_mode, ucs, ics, constructed, svars>>

\* lines 1319-1321: the body of reset() and its return
ResetBody(t) ==
  /\ pc[t] = "scs_reset"
  /\ CanRun(t)
  /\ count_' = 0
  /\ consistent_' = TRUE
  /\ recoverable_' = TRUE
  /\ list_' = <<>>
  /\ pc' = [ResumeAll(pc) EXCEPT ![t] = "idle"]
  /\ op' = [op EXCEPT ![t] = "none"]
  /\ scs' = SectionExit(scs, t)
  /\ UNCHANGED <<attrs, prio_ceiling_, owner_, owner_prio_, boosted_prio_,
                 prio, acquired_mutexes_, interrupted_, res,
                 timeout_timestamp, new_ceiling, max_prio, cvars, gvars,
                 in_handler_mode, ucs, ics, constructed, svars>>

NextSections ==
  \/ \E t \in Callers : \E o \in {"lock", "timed_lock", "try_lock", "unlock",
                                  "reset"} : Begin(t, o)
  \/ \E t \in Callers : TryLockBody(t)
  \/ \E t \in Callers : PriorityWrite(t)
  \/ \E t \in Callers : AfterFirst(t)
  \/ \E t \in Callers : LoopEnter(t)
  \/ \E t \in Callers : AfterLoop(t)
  \/ \E t \in Callers : LinkNode(t)
  \/ \E t \in Callers : Suspend(t)
  \/ \E t \in Callers : AfterTry(t)
  \/ \E t \in Callers : UnlockBody(t)
  \/ \E t \in Callers : ResetBody(t)
  \/ \E t \in Callers : Resumed(t)
  \/ \E t \in Callers : Reeval(t)
  \/ \E t \in Callers : Timeout(t)
  \/ \E t \in Callers : Interrupt(t)
  \/ \E t \in Callers : ClearInterrupt(t)
  \/ \E t \in Callers : SchedLock(t)
  \/ \E t \in Callers : SchedUnlock(t)
  \/ Tick

SpecSections == Init /\ [][NextSections]_vars

\* lock, try_lock and unlock section by section, called by every thread
NextAttempt ==
  \/ \E t \in Threads : \E o \in {"lock", "try_lock", "unlock"} : Begin(t, o)
  \/ \E t \in Threads : TryLockBody(t)
  \/ \E t \in Threads : PriorityWrite(t)
  \/ \E t \in Threads : AfterFirst(t)
  \/ \E t \in Threads : LoopEnter(t)
  \/ \E t \in Threads : AfterLoop(t)
  \/ \E t \in Threads : LinkNode(t)
  \/ \E t \in Threads : Suspend(t)
  \/ \E t \in Threads : AfterTry(t)
  \/ \E t \in Threads : UnlockBody(t)
  \/ \E t \in Threads : Resumed(t)

SpecAttempt == Init /\ [][NextAttempt]_vars

\* -------------------------------------------------------------- properties
\* C1: mutual exclusion. At most one thread is between a successful
\* acquisition (a locking call that returned ok) and its final unlock.
Holders == {t \in Threads : held[t]}

C2_InheritInvariant ==
  (protocol_ = "inherit" /\ owner_ # NoThread)
    => \A i \in 1..Len(list_) : prio[owner_] >= prio[list_[i]]

\* C2 is reached with waiters: an owned inherit mutex with a linked waiter
C2_Witness ==
  protocol_ = "inherit" /\ owner_ # NoThread /\ Len(list_) > 0
    /\ boosted_prio_ # none

\* C3: with protocol protect, while the mutex is owned the owner's priority
\* is at least the ceiling, also after another thread's timed_lock failed.
C3_ProtectInvariant ==
  (protocol_ = "protect" /\ owner_ # NoThread) => prio[owner_] >= prio_ceiling_

\* a step of thread t that runs _try_lock: the entry of a locking call or a
\* pass of its wait loop; its result is _try_lock(t).res
LockStep(t) == lock(t) \/ try_lock(t) \/ timed_lock(t) \/ Loop(t)

\* C4: a lock attempt on an unowned protect mutex by a thread whose priority
\* exceeds the ceiling returns EINVAL and leaves owner, count and the
\* caller's acquired-mutexes counter unchanged.
C4_OverCeiling ==
  [][\A t \in Threads :
       (LockStep(t) /\ protocol_ = "protect" /\ owner_ = NoThread
          /\ prio[t] > prio_ceiling_)
         => (_try_lock(t).res = "EINVAL"
               /\ UNCHANGED <<owner_, count_, acquired_mutexes_>>)]_vars

\* C5: after reset the mutex is as freshly constructed: no owner, count 0,
\* no boosted priority, empty waiting list, consistent and recoverable, the
\* attributes and the ceiling preserved.
C5_ResetFresh ==
  [][\A t \in Threads :
       reset(t)
         => (owner_' = NoThread /\ count_' = 0 /\ boosted_prio_' = none
               /\ list_' = <<>> /\ consistent_' /\ recoverable_'
               /\ UNCHANGED <<attrs, prio_ceiling_>>)]_vars

\* the step at which timed_lock of thread t returns ETIMEDOUT: after the
\* unlink when nothing is to be written, else after the writes
TimedOutReturn(t) ==
  \/ Resumed(t) /\ op[t] = "timed_lock" /\ WaitResult(t) = "ETIMEDOUT"
       /\ pc'[t] = "idle"
  \/ Reeval(t) /\ res[t] = "ETIMEDOUT"

\* the larger of two priorities
MaxOf(a, b) == IF a >= b THEN a ELSE b

\* C6: inherit mutex held by a low-priority owner that timed_lock waiters
\* boosted.  When a waiter times out and others stay linked the owner stays
\* boosted to the highest of them; when the last waiter times out, leaving
\* no waiters, the owner drops back to its saved priority.
C6_TimedRestore ==
  [][\A t \in Threads :
       (TimedOutReturn(t) /\ protocol_ = "inherit" /\ boosted_prio_ # none
          /\ owner_ # NoThread /\ owner_ # t /\ count_ >= 1
          /\ ~InList(owner_) /\ owner_prio_ < prio[t])
         => prio'[owner_] = (IF list_' = <<>> THEN owner_prio_
                             ELSE MaxOf(owner_prio_, MaxWaiterPrio(list_')))]_vars

\* C7: a waiter of the untimed lock() that leaves its wait with EINTR runs
\* the re-evaluation, so that a boosted owner is not left at the priority of
\* a thread that no longer waits: it runs no higher than its saved priority
\* and the remaining waiters ask for.
C7_LockInterrupted ==
  [][\A t \in Threads :
       (Resumed(t) /\ op[t] = "lock" /\ WaitResult(t) = "EINTR"
          /\ protocol_ = "inherit" /\ boosted_prio_ # none
          /\ owner_ # NoThread /\ owner_ # t /\ count_ >= 1
          /\ ~InList(owner_))
         => prio'[owner_] <= MaxOf(owner_prio_, MaxWaiterPrio(list_'))]_vars

\* C8: when timed_lock fails (ETIMEDOUT or EINTR) while boosted_prio_ is set
\* and another waiter remains linked, boosted_prio_ and the owner's priority
\* are both set to the highest priority of the remaining waiters.
C8_ReevalMax ==
  [][\A t \in Threads :
       (Reeval(t) /\ boosted_prio_ # none /\ list_ # <<>>
          /\ ~(owner_ # NoThread /\ InList(owner_)))
         => (owner_ # NoThread
               /\ boosted_prio_' = MaxWaiterPrio(list_)
               /\ prio'[owner_] = MaxWaiterPrio(list_))]_vars

\* C9: recursive accounting.  count_ is the number of successful locks of
\* the owner less its unlocks: the first successful lock sets it to 1, each
\* successful relock adds one, a locking call that fails leaves it alone,
\* and an unlock at count_ > 1 changes count_ only: nobody is resumed, the
\* owner and its acquired-mutexes counter stay.
C9_RecursiveCount ==
  [][\A t \in Threads :
       type_ = "recursive" =>
         /\ (LockStep(t) /\ _try_lock(t).res = "ok" /\ owner_ = NoThread)
              => (count_' = 1 /\ owner_' = t)
         /\ (LockStep(t) /\ _try_lock(t).res = "ok" /\ owner_ = t)
              => (count_' = count_ + 1 /\ owner_' = t)
         /\ (LockStep(t) /\ _try_lock(t).res # "ok")
              => UNCHANGED <<count_, owner_>>
         /\ (unlock(t) /\ owner_ = t /\ count_ > 1)
              => (count_' = count_ - 1
                    /\ UNCHANGED <<owner_, acquired_mutexes_, list_, pc,
                                   prio, owner_prio_, boosted_prio_>>)]_vars

\* C10: recursive cap.  At count_ = max_count_ a relock by the owner returns
\* EAGAIN and changes nothing; below it the relock succeeds, as does the
\* first lock of a free mutex the caller may take, so max_count_ locks
\* succeed and the next is refused; every unlock of the owner succeeds, the
\* last one frees the mutex, and one more unlock returns EPERM.
C10_RecursiveCap ==
  [][\A t \in Threads :
       type_ = "recursive" =>
         /\ (LockStep(t) /\ owner_ = t /\ count_ = max_count_)
              => (_try_lock(t).res = "EAGAIN"
                    /\ UNCHANGED <<mvars, prio, acquired_mutexes_, held>>)
         /\ (LockStep(t) /\ owner_ = t /\ count_ < max_count_)
              => (_try_lock(t).res = "ok" /\ count_' = count_ + 1)
         /\ (LockStep(t) /\ owner_ = NoThread
                /\ ~(protocol_ = "protect" /\ prio[t] > prio_ceiling_))
              => (_try_lock(t).res = "ok" /\ count_' = 1 /\ owner_' = t)
         /\ (unlock(t) /\ owner_ = t)
              => (Release(t).res = "ok"
                    /\ (count_ > 1 => count_' = count_ - 1 /\ owner_' = t)
                    /\ (count_ <= 1 => count_' = 0 /\ owner_' = NoThread))
         /\ (unlock(t) /\ owner_ # t)
              => (Release(t).res = "EPERM"
                    /\ UNCHANGED <<mvars, prio, acquired_mutexes_>>)]_vars

\* the owner of a recursive mutex has locked it max_count_ times
C10_Witness ==
  /\ type_ = "recursive"
  /\ owner_ # NoThread
  /\ held[owner_]
  /\ count_ = max_count_
  /\ max_count_ > 1

\* the entry of a locking call of thread t
LockCall(t) == lock(t) \/ try_lock(t) \/ timed_lock(t)

\* C11: on an errorcheck mutex a lock, try_lock or timed_lock by the owner
\* returns EDEADLK at once, without blocking, and changes nothing: owner,
\* count, waiters, priorities, acquired-mutexes counters.
C11_ErrorcheckRelock ==
  [][\A t \in Threads :
       (LockCall(t) /\ type_ = "errorcheck" /\ owner_ = t)
         => (_try_lock(t).res = "EDEADLK" /\ pc'[t] = "idle"
               /\ UNCHANGED <<mvars, prio, acquired_mutexes_, cvars>>)]_vars

\* the owner of an errorcheck mutex is between calls while another waits
C11_Witness ==
  /\ type_ = "errorcheck"
  /\ owner_ # NoThread
  /\ held[owner_]
  /\ pc[owner_] = "idle"
  /\ Len(list_) > 0

\* C12: on a normal mutex owned by the caller try_lock returns EWOULDBLOCK
\* and lock() never returns ok: the caller links itself into the waiting
\* list of its own mutex and stays there until it is interrupted, and then
\* lock() returns EINTR.
C12_NormalSelfDeadlock ==
  [][\A t \in Threads :
       (type_ = "normal" /\ owner_ = t) =>
         /\ try_lock(t)
              => (_try_lock(t).res = "EWOULDBLOCK"
                    /\ UNCHANGED <<mvars, prio, acquired_mutexes_>>)
         /\ lock(t) => pc'[t] = "retry"
         /\ (Loop(t) /\ op[t] = "lock")
              => (pc'[t] = "wait" /\ \E i \in 1..Len(list_') : list_'[i] = t)
         /\ (Resumed(t) /\ op[t] = "lock")
              => /\ interrupted_[t] => (pc'[t] = "idle" /\ WaitResult(t) = "EINTR")
                 /\ ~interrupted_[t] => pc'[t] = "retry"
         /\ (op[t] = "lock" /\ pc[t] # "idle") => owner_' = t]_vars

\* the owner of a normal mutex waits in lock() on its own mutex
C12_Witness ==
  \E t \in Threads :
    /\ type_ = "normal"
    /\ owner_ = t
    /\ op[t] = "lock"
    /\ pc[t] = "wait"
    /\ InList(t)

C14_UnlockNotOwner ==
  [][\A t \in Threads :
       (unlock(t) /\ owner_ # t)
         => (Release(t).res = (IF type_ \in {"errorcheck", "recursive"}
                                 THEN "EPERM" ELSE "ENOTRECOVERABLE")
               /\ UNCHANGED <<mvars, prio, acquired_mutexes_, pc, cvars>>)]_vars

\* a thread that is not the owner is between calls while the mutex is owned
\* and has a waiter
C14_Witness ==
  \E t \in Threads :
    /\ owner_ # NoThread
    /\ owner_ # t
    /\ pc[t] = "idle"
    /\ ~interrupted_[t]
    /\ CanRun(t)
    /\ Len(list_) > 0

\* C15: owner_ is null exactly when count_ is 0, and while the mutex is owned
\* count_ is within 1..max_count_ (max_count_ is 1 when not recursive).
C15_CountOwner ==
  /\ (owner_ = NoThread) <=> (count_ = 0)
  /\ owner_ # NoThread => (1 <= count_ /\ count_ <= max_count_)

\* C16: the waiting list is non-empty only if the mutex has an owner, also
\* right after an unlock done while two or more threads were waiting.
C16_WaitersOwned == Len(list_) > 0 => owner_ # NoThread

\* C17: if boosted_prio_ is not none the mutex has an owner and the owner's
\* current priority is boosted_prio_.
C17_BoostedOwner ==
  boosted_prio_ # none => (owner_ # NoThread /\ prio[owner_] = boosted_prio_)

\* the mutex can be taken by thread t without waiting
Acquirable(t) == _try_lock(t).res = "ok"

\* C18: timed_lock never returns ETIMEDOUT when the mutex can be acquired
\* without waiting: at its entry, also with a zero duration, a free (or
\* re-lockable) mutex is taken with result ok, and a caller resumed by unlock
\* at or after its deadline takes the free mutex instead of timing out.
C18_NoTimeoutIfFree ==
  [][\A t \in Threads :
       /\ (timed_lock(t) /\ Acquirable(t)) => (pc'[t] = "idle" /\ held'[t])
       /\ (Resumed(t) /\ op[t] = "timed_lock"
              /\ WaitResult(t) = "ETIMEDOUT")
            => ~Acquirable(t)]_vars

Pos(s, t) == CHOOSE i \in 1..Len(s) : s[i] = t

\* the threads a step resumes from their wait
Resumes == {u \in Threads : pc[u] = "wait" /\ pc'[u] = "woken"}

C21_NoHandoff ==
  [][\A t \in Threads :
       /\ (unlock(t) /\ Final(t))
            => (owner_' = NoThread /\ count_' = 0
                  /\ acquired_mutexes_' =
                       [acquired_mutexes_ EXCEPT ![t] = @ - 1])
       /\ Resumed(t) => UNCHANGED <<owner_, count_, acquired_mutexes_>>
       /\ (owner_' = t /\ owner_ # t) => (LockStep(t) /\ owner_ = NoThread)
       /\ (Loop(t) /\ owner_ # NoThread /\ owner_ # t)
            => (pc'[t] = "wait" /\ UNCHANGED <<owner_, count_>>
                  /\ \E i \in 1..Len(list_') : list_'[i] = t)]_vars

\* a waiter of lock() resumed without an interrupt finds the errorcheck
\* mutex taken by another thread
C21_Witness ==
  \E t \in Threads :
    /\ type_ = "errorcheck"
    /\ op[t] = "lock"
    /\ pc[t] = "woken"
    /\ ~interrupted_[t]
    /\ owner_ # NoThread
    /\ owner_ # t
    /\ count_ = 1
    /\ held[owner_]
    /\ ~InList(t)

\* thread t has returned ok from its call as the owner, with count 1
Acquired(t) == owner_ = t /\ count_ = 1 /\ held[t] /\ pc[t] = "idle"

\* the counts of the scenario: a successful lock takes the count to 1, the
\* owner's unlock to 0, and there is one holder at most
HandOverCounts ==
  [][\A t \in Threads :
       /\ (LockStep(t) /\ _try_lock(t).res = "ok")
            => (count_ = 0 /\ count_' = 1 /\ owner_' = t)
       /\ (unlock(t) /\ owner_ = t) => (count_' = 0 /\ owner_' = NoThread)
       /\ Cardinality({u \in Threads : held'[u]}) <= 1]_vars

\* C22 as stated: a thread blocked in lock() that the owner's final unlock
\* resumed, not interrupted and with no other thread attempting to lock,
\* eventually returns ok as the owner with count 1; the count goes 1, 0, 1, 0.
C22_HandOver ==
  /\ \A t \in Threads :
       (pc[t] = "woken" /\ op[t] = "lock") ~> Acquired(t)
  /\ HandOverCounts

\* C22 with the case left out in which the waiter may not take the mutex:
\* protocol protect and a waiter whose priority exceeds the ceiling.
C22_HandOverAmended ==
  /\ \A t \in Threads :
       (pc[t] = "woken" /\ op[t] = "lock"
          /\ ~(protocol_ = "protect" /\ prio[t] > prio_ceiling_))
         ~> Acquired(t)
  /\ HandOverCounts

\* the owner's final unlock has resumed the waiter of a higher priority, which
\* may take the mutex
C22_Witness ==
  \E t \in Threads :
    /\ pc[t] = "woken"
    /\ op[t] = "lock"
    /\ owner_ = NoThread
    /\ count_ = 0
    /\ ~(protocol_ = "protect" /\ prio[t] > prio_ceiling_)
    /\ \A u \in Threads \ {t} : pc[u] = "idle" /\ prio[u] < prio[t]

AnyCall(t) ==
  \/ lock(t) \/ timed_lock(t) \/ try_lock(t) \/ unlock(t) \/ reset(t)
  \/ consistent(t) \/ prio_ceiling(t)

\* C24: context restrictions.  From an interrupt handler every call (lock,
\* timed_lock, try_lock, unlock, reset, consistent, the prio_ceiling setter)
\* returns EPERM, and so do lock and timed_lock while the scheduler is locked;
\* such a call changes nothing of the mutex and of the threads and suspends
\* nobody.
C24_Context ==
  /\ [](in_handler_mode
          => /\ \A o \in {"lock", "timed_lock", "try_lock", "unlock", "reset",
                           "prio_ceiling"} : EntryCheck(o) = "EPERM"
             /\ ConsistentResult = "EPERM")
  /\ [](Locked => EntryCheck("lock") = "EPERM"
                    /\ EntryCheck("timed_lock") = "EPERM")
  /\ [][\A t \in Threads :
          /\ (in_handler_mode /\ AnyCall(t)) => UNCHANGED vars
          /\ (Locked /\ (lock(t) \/ timed_lock(t))) => UNCHANGED vars]_vars

\* an interrupt handler runs while a thread that locked the scheduler is
\* between calls and the mutex is owned by another thread
C24_Witness ==
  \E t \in Threads :
    /\ in_handler_mode
    /\ scs[t] > 0
    /\ pc[t] = "idle"
    /\ owner_ # NoThread
    /\ owner_ # t
    /\ count_ >= 1

\* C25: construction.  A construction that succeeds leaves owner none, count
\* 0, consistent, recoverable and no waiters, with max_count the value of the
\* attributes for type recursive and 1 otherwise; from an interrupt handler
\* it fails with EPERM, and with robustness robust it fails with ENOTSUP.
C25_Construction ==
  [][\A a \in Attributes :
       Construct(a) =>
         /\ in_handler_mode => constructed' = "EPERM"
         /\ (~in_handler_mode /\ a.mx_robustness = "robust")
              => constructed' = "ENOTSUP"
         /\ (~in_handler_mode /\ a.mx_robustness # "robust")
              => constructed' = "ok"
         /\ constructed' = "ok"
              => /\ owner_' = NoThread
                 /\ count_' = 0
                 /\ consistent_' = TRUE
                 /\ recoverable_' = TRUE
                 /\ list_' = <<>>
                 /\ type_' = a.mx_type
                 /\ protocol_' = a.mx_protocol
                 /\ max_count_' = (IF a.mx_type = "recursive"
                                     THEN a.mx_max_count ELSE 1)]_vars

\* a recursive mutex constructed with the count limit of its attributes
C25_Witness ==
  /\ constructed = "ok"
  /\ type_ = "recursive"
  /\ max_count_ = MaxCount
  /\ owner_ = NoThread
  /\ count_ = 0

\* a step of thread t in the lock() of its prio_ceiling setter call
SetterLock(t) == prio_ceiling(t) \/ (Loop(t) /\ op[t] = "prio_ceiling")

C27_SetterNoProtect ==
  [][\A t \in Threads :
       (SetterLock(t) /\ protocol_ = "protect")
         => (prio'[t] = prio[t] /\ _try_lock(t).res # "EINVAL")]_vars

\* C28: wait-node lifetime.  A thread that is not inside its wait (between
\* the link and the unlink after the resume) has its wait node in no waiting
\* list and its timeout node in no timeout list: so on every return of lock()
\* and timed_lock(), with ok, EINTR, ETIMEDOUT or an error of _try_lock,
\* whether unlock, the timeout callback, reset or nobody unlinked the nodes
\* before the resumed thread did.
C28_NodeLifetime ==
  \A t \in Threads :
    pc[t] \notin {"wait", "woken"} => (~InList(t) /\ t \notin clock_list)

\* a timed_lock that timed out has unlinked its nodes and is about to
\* return while another thread stays linked
C28_Witness ==
  \E t \in Threads :
    /\ pc[t] = "reeval"
    /\ res[t] = "ETIMEDOUT"
    /\ ~InList(t)
    /\ t \notin clock_list
    /\ Len(list_) > 0
    /\ clock_list # {}

\* the scheduler critical sections of its call that thread t has open at
\* label l
OwnDepth(l) ==
  IF l \in {"scs_first", "scs_loop", "scs_try", "scs_unlock", "scs_reset",
            "ucs_first", "ucs_loop", "ucs_try", "post_first", "post_loop",
            "post_try", "ics", "linked", "ready"}
    THEN 1
  ELSE 0

\* the scheduler critical sections of thread t that its call did not open
Outside(t) == scs[t] - OwnDepth(pc[t])

\* C29: critical-section discipline.  A thread in lock or timed_lock is
\* suspended only at reschedule(), after the interrupt critical section and
\* the scheduler critical section have ended.  A call keeps the sections it
\* found open and leaves none of its own open: the uncritical section is
\* open only around the write of the priority in _try_lock, the interrupt
\* critical section only around the linking of the nodes, and a thread
\* between calls, waiting or resumed has no section of its call open, so
\* the depth on return is the depth on entry.
C29_Sections ==
  /\ [](\A t \in Threads :
          /\ ucs[t] = IF pc[t] \in {"ucs_first", "ucs_loop", "ucs_try"}
                        THEN 1 ELSE 0
          /\ Outside(t) >= 0
          /\ pc[t] \in {"wait", "woken", "retry", "reeval"} => scs[t] = 0)
  /\ [](ics = Cardinality({t \in Threads : pc[t] = "ics"}))
  /\ [][\A t \in Threads :
          /\ (pc'[t] = "wait" /\ pc[t] # "wait")
               => /\ pc[t] = "linked"
                  /\ op[t] \in {"lock", "timed_lock"}
                  /\ scs'[t] = 0 /\ ucs'[t] = 0 /\ ics' = 0
                  /\ ~Locked'
          /\ Outside(t)' = Outside(t) \/ SchedLock(t) \/ SchedUnlock(t)]_vars

\* a thread waits in timed_lock with its nodes linked and no section open,
\* while the other thread, which had opened a scheduler critical section of
\* its own before the call, is about to return from try_lock
C29_Witness ==
  \E t, u \in Threads :
    /\ t # u
    /\ pc[t] = "wait"
    /\ op[t] = "timed_lock"
    /\ InList(t)
    /\ t \in clock_list
    /\ scs[t] = 0
    /\ ics = 0
    /\ pc[u] = "post_try"
    /\ scs[u] = 2
    /\ ucs[u] = 0

\* C31: timed_lock terminates.  A timed_lock that was called returns, the
\* system still running: it is not left waiting for ever and it is not
\* ended by a write through a null owner_.
C31_TimedLockReturns ==
  \A t \in Threads :
    (op[t] = "timed_lock") ~> (op[t] # "timed_lock" /\ ~nullDeref)

\* C32: the first acquisition under protect.  A thread whose priority does
\* not exceed the ceiling takes the free mutex with result ok: it is the
\* owner, the count is 1, its counter of acquired mutexes is one more, the
\* saved priority is its priority; below the ceiling the boost is recorded
\* and it runs at the ceiling, at the ceiling no boost is recorded and its
\* priority stays.
C32_ProtectFirstLock ==
  [][\A t \in Threads :
       (LockStep(t) /\ protocol_ = "protect" /\ owner_ = NoThread
          /\ prio[t] <= prio_ceiling_)
         => /\ _try_lock(t).res = "ok"
            /\ pc'[t] = "idle"
            /\ owner_' = t
            /\ count_' = 1
            /\ acquired_mutexes_'[t] = acquired_mutexes_[t] + 1
            /\ owner_prio_' = prio[t]
            /\ IF prio_ceiling_ > prio[t]
                 THEN boosted_prio_' = prio_ceiling_
                        /\ prio'[t] = prio_ceiling_
                 ELSE boosted_prio_' = none /\ prio'[t] = prio[t]]_vars

\* a thread at the ceiling has taken the free protect mutex: no boost
C32_Witness ==
  \E t \in Threads :
    /\ protocol_ = "protect"
    /\ owner_ = t
    /\ pc[t] = "idle"
    /\ held[t]
    /\ entry[t].set
    /\ entry[t].prio = prio_ceiling_
    /\ count_ = 1
    /\ owner_prio_ = prio_ceiling_
    /\ boosted_prio_ = none
    /\ prio[t] = prio_ceiling_
    /\ acquired_mutexes_[t] = entry[t].acquired + 1

\* C33: an attempt on a mutex owned by another thread.  _try_lock returns
\* EWOULDBLOCK and leaves owner, count, saved priority and the counters of
\* acquired mutexes; with protocol inherit and a caller above the owner the
\* boost and the owner's priority become the caller's priority, otherwise
\* no priority and no boost changes.  The first conjunct is _try_lock up to
\* its return or its uncritical section, the second the write in the
\* uncritical section: it raises the owner to the caller's priority, or
\* changes nothing when the owner has been raised further meanwhile.
C33_AttemptFrame ==
  [][\A t \in Threads :
       /\ (TryLockBody(t) /\ owner_ # NoThread /\ owner_ # t)
            => /\ res'[t] = "EWOULDBLOCK"
               /\ UNCHANGED <<owner_, count_, owner_prio_, acquired_mutexes_,
                              prio>>
               /\ IF protocol_ = "inherit" /\ prio[t] > prio[owner_]
                    THEN boosted_prio_' = prio[t] /\ ucs'[t] = 1
                    ELSE UNCHANGED boosted_prio_ /\ ucs'[t] = 0
       /\ (PriorityWrite(t) /\ res[t] = "EWOULDBLOCK")
            => /\ UNCHANGED <<owner_, count_, owner_prio_, acquired_mutexes_,
                              boosted_prio_>>
               /\ owner_ # NoThread
               /\ \/ prio' = prio
                  \/ /\ boosted_prio_ = prio[t]
                     /\ prio' = [prio EXCEPT ![owner_] = prio[t]]]_vars

\* C34: the owner of an inherit or protect mutex never runs below the
\* priority saved when it took the mutex.
C34_OwnerNotBelowSaved ==
  (owner_ # NoThread /\ protocol_ \in {"inherit", "protect"})
    => prio[owner_] >= owner_prio_

\* C35: no lost wakeup.  A thread suspended in the waiting list of a mutex
\* without owner does not stay so for ever: it is resumed or the mutex is
\* taken.
C35_NoLostWakeup ==
  \A t \in Threads :
    (owner_ = NoThread /\ InList(t) /\ pc[t] = "wait")
      ~> (pc[t] # "wait" \/ owner_ # NoThread)

\* C36: the re-evaluation on the failure path of timed_lock writes the
\* priority of an owner that exists: when it writes, owner_ is not null.
C36_ReevalHasOwner ==
  [][\A t \in Threads : Reeval(t) => owner_ # NoThread]_vars

\* the number of mutexes that thread t owns (there is one mutex)
Owned(t) == IF owner_ = t THEN 1 ELSE 0

\* C37: the counter of acquired mutexes of every thread is the number of
\* mutexes it owns and never goes below zero; it is incremented only by a
\* first acquisition (a lock attempt on the free mutex that returns ok) and
\* decremented only by the owner's final unlock.
C37_AcquiredCounter ==
  /\ [](\A t \in Threads :
          acquired_mutexes_[t] = Owned(t) /\ acquired_mutexes_[t] >= 0)
  /\ [][\A t \in Threads :
          /\ acquired_mutexes_'[t] > acquired_mutexes_[t]
               => /\ acquired_mutexes_'[t] = acquired_mutexes_[t] + 1
                  /\ LockStep(t)
                  /\ owner_ = NoThread
                  /\ _try_lock(t).res = "ok"
          /\ acquired_mutexes_'[t] < acquired_mutexes_[t]
               => /\ acquired_mutexes_'[t] = acquired_mutexes_[t] - 1
                  /\ unlock(t)
                  /\ Final(t)]_vars

\* C38: the setters of the stack sizes.  As long as no assertion failed the
\* default size is not below the minimum size; each setter returns the value
\* it replaced; default_size (size) asserts size != 0 and size >= min_size ().
C38_StackSizes ==
  /\ [](~assert_failed => default_size_bytes_ >= min_size_bytes_)
  /\ [][\A size_bytes \in Sizes :
          /\ min_size(size_bytes)
               => (tmp' = min_size_bytes_ /\ min_size_bytes_' = size_bytes)
          /\ default_size(size_bytes)
               => IF size_bytes # 0 /\ size_bytes >= min_size_bytes_
                    THEN /\ tmp' = default_size_bytes_
                         /\ default_size_bytes_' = size_bytes
                         /\ ~assert_failed'
                    ELSE assert_failed']_vars
====
